---- MODULE Spec2Model ----
(***************************************************************************)
(* A model of the annotation merge of src/annotate.py: the fragments an    *)
(* LLM returned for each annotation type are mapped back onto the words of *)
(* a document and the matching words get the type's flag.                  *)
(*                                                                         *)
(* A Python str is a sequence of code points; a code point is a TLA+       *)
(* string (one character, or a name such as "a_breve" for a code point     *)
(* outside ASCII).  Python indices are 0-based and are kept 0-based in the *)
(* positions the matching functions return; page, paragraph and list       *)
(* indices of the state are 1-based, as TLA+ sequences are.                *)
(***************************************************************************)
EXTENDS Integers, Sequences, FiniteSets, TLC

VARIABLES
    document,            \* the DocumentRequest the task was given
    extraction_type,     \* its field extraction_type: None or <<list>>
    annotation_results_list,  \* the tasks of line 219 and what they returned
    status_updates,      \* the calls of update_task_status_callback so far
    redis_task,          \* the record task:{task_id} in Redis: None or <<record>>
    written,             \* the statuses update_task_status has saved in it
    http_response,       \* the last response of the server: None or <<response>>
    annotated_document,  \* document.copy(deep=True), the copy that is flagged
    annotation_results,  \* the dict of line 227, as its items() in order
    paragraph_mapping,   \* paragraph number -> <<page_idx, para_idx>>
    pc,                  \* the position of annotate_document_with_llm
    item_idx,            \* position of the loop of line 265
    matches,             \* the fragments of the current annotation type
    frag_idx,            \* position of the loop of line 278
    cleaned_content,     \* the fragment being matched
    actual_para_num,     \* loop variable of find_best_matching_paragraph
    best_match_score,    \* the best score so far, then the returned score
    best_paragraph_info  \* None (<<>>) or <<page_idx, para_idx>>

vars == << document, extraction_type, annotation_results_list, status_updates,
           redis_task, written, http_response,
           annotated_document, annotation_results, paragraph_mapping, pc, item_idx,
           matches, frag_idx, cleaned_content, actual_para_num,
           best_match_score, best_paragraph_info >>

-----------------------------------------------------------------------------
(* Python str operations, on sequences of code points.                     *)

LowerLetters ==
    << "a", "b", "c", "d", "e", "f", "g", "h", "i", "j", "k", "l", "m",
       "n", "o", "p", "q", "r", "s", "t", "u", "v", "w", "x", "y", "z" >>

UpperLetters ==
    << "A", "B", "C", "D", "E", "F", "G", "H", "I", "J", "K", "L", "M",
       "N", "O", "P", "Q", "R", "S", "T", "U", "V", "W", "X", "Y", "Z" >>

Digits == {"0", "1", "2", "3", "4", "5", "6", "7", "8", "9"}

\* Letters outside ASCII: lower-case letters with a diacritic.
AccentedLetters == {"a_breve"}

Range(f) == {f[i] : i \in DOMAIN f}

\* str.isspace of one code point
Whitespace == {" ", "\n", "\t"}
IsSpace(c) == c \in Whitespace

\* the class \w of re
WordChars ==
    Range(LowerLetters) \cup Range(UpperLetters) \cup Digits
        \cup AccentedLetters \cup {"_"}
IsWordChar(c) == c \in WordChars

\* str.lower of one code point
LowerOf == [i \in DOMAIN UpperLetters |-> LowerLetters[i]]
UpperIndex ==
    [c \in Range(UpperLetters) |->
        CHOOSE i \in DOMAIN UpperLetters : UpperLetters[i] = c]
ToLower(c) == IF c \in DOMAIN UpperIndex THEN LowerOf[UpperIndex[c]] ELSE c

lower(s) == [i \in 1..Len(s) |-> ToLower(s[i])]

RECURSIVE lstrip(_)
lstrip(s) == IF s # <<>> /\ IsSpace(Head(s)) THEN lstrip(Tail(s)) ELSE s

RECURSIVE rstrip(_)
rstrip(s) ==
    IF s # <<>> /\ IsSpace(s[Len(s)])
    THEN rstrip(SubSeq(s, 1, Len(s) - 1))
    ELSE s

strip(s) == rstrip(lstrip(s))

\* Length of the leading run of code points that are not whitespace.
RECURSIVE TokenLen(_)
TokenLen(s) ==
    IF s = <<>> \/ IsSpace(Head(s)) THEN 0 ELSE 1 + TokenLen(Tail(s))

\* str.split() without arguments: the maximal runs without whitespace
RECURSIVE split(_)
split(s) ==
    LET t == lstrip(s)
        n == TokenLen(t)
    IN  IF t = <<>> THEN <<>>
        ELSE <<SubSeq(t, 1, n)>> \o split(SubSeq(t, n + 1, Len(t)))

\* ' '.join(list)
RECURSIVE join(_)
join(ws) ==
    IF ws = <<>> THEN <<>>
    ELSE IF Len(ws) = 1 THEN ws[1]
    ELSE ws[1] \o <<" ">> \o join(Tail(ws))

\* sub in s
contains(s, sub) ==
    \E i \in 0..(Len(s) - Len(sub)) : SubSeq(s, i + 1, i + Len(sub)) = sub

\* First index >= from where pat starts in s, or 0.
find(s, pat, from) ==
    LET hits == {i \in from..(Len(s) - Len(pat) + 1) :
                    SubSeq(s, i, i + Len(pat) - 1) = pat}
    IN  IF hits = {} THEN 0 ELSE CHOOSE i \in hits : \A j \in hits : i <= j

OpenTag == <<"<", "p", ">">>
CloseTag == <<"<", "/", "p", ">">>

\* re.findall(r'<p>(.*?)</p>', text, re.DOTALL)
RECURSIVE findall_from(_, _)
findall_from(text, from) ==
    LET s == find(text, OpenTag, from)
        e == IF s = 0 THEN 0 ELSE find(text, CloseTag, s + Len(OpenTag))
    IN  IF s = 0 \/ e = 0 THEN <<>>
        ELSE <<SubSeq(text, s + Len(OpenTag), e - 1)>>
                 \o findall_from(text, e + Len(CloseTag))

\* (variant that takes a text without a <p>...</p> pair as one fragment)
findall_untagged(text) ==
    IF findall_from(text, 1) = <<>> /\ text # <<>> THEN <<text>>
    ELSE findall_from(text, 1)

findall(text) == findall_from(text, 1)

-----------------------------------------------------------------------------
(* The matching functions of src/annotate.py.                              *)

KeepChar(c) == IsWordChar(c) \/ IsSpace(c)

\* re.sub(r'[^\w\s]', '', word.lower())
clean(word) == SelectSeq(lower(word), KeepChar)

\* (variant of words_match without the calls of lower)
words_match_cased(word1, word2) ==
    SelectSeq(word1, KeepChar) = SelectSeq(word2, KeepChar)

words_match(word1, word2) == clean(word1) = clean(word2)

\* (variant of the loop of line 45 that stops at the first window that
\*  matches)
find_word_positions_first(target_text, paragraph_words) ==
    LET target_words == split(strip(target_text))
        starts == {start_pos \in 0..(Len(paragraph_words) - Len(target_words)) :
                     \A i \in 1..Len(target_words) :
                        words_match(strip(paragraph_words[start_pos + i]),
                                    target_words[i])}
        first == CHOOSE start_pos \in starts :
                     \A other \in starts : start_pos <= other
    IN  IF target_words = <<>> \/ starts = {} THEN {}
        ELSE first..(first + Len(target_words) - 1)

\* paragraph_words is the list of the texts of the words; the positions
\* returned are 0-based, as a set (the callers take set() of the list).
find_word_positions_in_paragraph(target_text, paragraph_words) ==
    LET target_words == split(strip(target_text))
        starts == {start_pos \in 0..(Len(paragraph_words) - Len(target_words)) :
                     \A i \in 1..Len(target_words) :
                        words_match(strip(paragraph_words[start_pos + i]),
                                    target_words[i])}
    IN  IF target_words = <<>> THEN {}
        ELSE UNION {start_pos..(start_pos + Len(target_words) - 1) :
                       start_pos \in starts}

\* (variant of find_contiguous_matches that looks for the whole fragment
\*  only, not for its sub-phrases)
find_contiguous_matches_whole(annotated_text, original_words) ==
    find_word_positions_in_paragraph(annotated_text, original_words)

find_contiguous_matches(annotated_text, original_words) ==
    LET annotated_words == split(annotated_text)
        n == Len(annotated_words)
    IN  UNION {find_word_positions_in_paragraph(
                   join(SubSeq(annotated_words, start_idx + 1, end_idx)),
                   original_words) :
               <<start_idx, end_idx>> \in
                   {se \in (0..(n - 1)) \X (1..n) : se[1] + 1 <= se[2]}}

\* (variant of TrimLoop that keeps scanning after a pair that differs)
RECURSIVE TrimLoopNoBreak(_, _)
TrimLoopNoBreak(ms, i) ==
    IF i > 1
    THEN IF strip(ms[i + 1]) = strip(ms[i])
         THEN TrimLoopNoBreak(SubSeq(ms, 1, i) \o SubSeq(ms, i + 2, Len(ms)), i - 1)
         ELSE TrimLoopNoBreak(ms, i - 1)
    ELSE ms

\* the while loop of remove_duplicate_paragraphs_from_end; i is 0-based
RECURSIVE TrimLoop(_, _)
TrimLoop(ms, i) ==
    IF i > 1
    THEN IF strip(ms[i + 1]) = strip(ms[i])
         THEN TrimLoop(SubSeq(ms, 1, i) \o SubSeq(ms, i + 2, Len(ms)), i - 1)
         ELSE ms
    ELSE ms

remove_duplicate_paragraphs_from_end(ms) ==
    IF Len(ms) < 2 THEN ms ELSE TrimLoop(ms, Len(ms) - 1)

\* A score is the float the code computes: 0, 1.0 or a quotient of two
\* small integers, kept as a fraction in lowest terms.
RECURSIVE GCD(_, _)
GCD(a, b) == IF b = 0 THEN a ELSE GCD(b, a % b)

Quotient(n, d) == [num |-> n \div GCD(n, d), den |-> d \div GCD(n, d)]

ScoreZero == [num |-> 0, den |-> 1]
ScoreOne == [num |-> 1, den |-> 1]

\* a > b on scores
Greater(a, b) == a.num * b.den > b.num * a.den

\* ' '.join([word.text.strip() for word in paragraph_words]).strip(), line 96
paragraph_text_of(paragraph_words) ==
    strip(join([i \in 1..Len(paragraph_words) |-> strip(paragraph_words[i])]))

\* (variant of line 110 that divides by the number of words of the
\*  fragment)
calculate_match_score_per_fragment(annotated_content, paragraph_words, annotated_text_normalized) ==
    LET paragraph_text == paragraph_text_of(paragraph_words)
        matching_positions ==
            find_contiguous_matches(annotated_text_normalized, paragraph_words)
    IN  IF paragraph_words = <<>> THEN ScoreZero
        ELSE IF Len(paragraph_text) < Len(annotated_content) THEN ScoreZero
        ELSE IF contains(paragraph_text, annotated_text_normalized) THEN ScoreOne
        ELSE Quotient(Cardinality(matching_positions),
                      Len(split(annotated_text_normalized)))

calculate_match_score(annotated_content, paragraph_words, annotated_text_normalized) ==
    LET paragraph_text == paragraph_text_of(paragraph_words)
        matching_positions ==
            find_contiguous_matches(annotated_text_normalized, paragraph_words)
    IN  IF paragraph_words = <<>> THEN ScoreZero
        ELSE IF Len(paragraph_text) < Len(annotated_content) THEN ScoreZero
        ELSE IF contains(paragraph_text, annotated_text_normalized) THEN ScoreOne
        ELSE Quotient(Cardinality(matching_positions), Len(paragraph_words))

-----------------------------------------------------------------------------
(* The document of src/models.py and the merge of                          *)
(* annotate_document_with_llm (lines 246-318).                             *)

all_annotation_types ==
    <<"isTemei", "isProba", "isSelected", "isCerere", "isReclamant", "isParat">>

\* The boolean fields of Word.
FlagNames ==
    {"isSelected", "isProba", "isExceptie", "isTemei", "isCerere",
     "isReclamant", "isParat"}

None == <<>>

\* The indices, in order, of the words of a paragraph whose text is not
\* blank: the list [word for word in paragraph.words if word.text.strip()]
\* holds references to these words.
RECURSIVE NonBlankFrom(_, _)
NonBlankFrom(words, i) ==
    IF i > Len(words) THEN <<>>
    ELSE (IF strip(words[i].text) # <<>> THEN <<i>> ELSE <<>>)
             \o NonBlankFrom(words, i + 1)

NonBlank(paragraph) == NonBlankFrom(paragraph.words, 1)

\* The texts of that list.
WordTexts(paragraph) ==
    LET idx == NonBlank(paragraph)
    IN  [k \in 1..Len(idx) |-> paragraph.words[idx[k]].text]

ParagraphAt(doc, info) == doc.pages[info[1]].paragraphs[info[2]]

\* paragraph_mapping of lines 251-260: entry k is paragraph number k.
RECURSIVE MappingFrom(_, _, _)
MappingFrom(doc, page_idx, para_idx) ==
    IF page_idx > Len(doc.pages) THEN <<>>
    ELSE IF para_idx > Len(doc.pages[page_idx].paragraphs)
         THEN MappingFrom(doc, page_idx + 1, 1)
         ELSE (IF NonBlank(doc.pages[page_idx].paragraphs[para_idx]) # <<>>
               THEN << <<page_idx, para_idx>> >>
               ELSE <<>>)
                  \o MappingFrom(doc, page_idx, para_idx + 1)

\* (variant of lines 254-260 without the test of line 258: every
\*  paragraph gets a number)
RECURSIVE MappingOfAll(_, _, _)
MappingOfAll(doc, page_idx, para_idx) ==
    IF page_idx > Len(doc.pages) THEN <<>>
    ELSE IF para_idx > Len(doc.pages[page_idx].paragraphs)
         THEN MappingOfAll(doc, page_idx + 1, 1)
         ELSE << <<page_idx, para_idx>> >>
                  \o MappingOfAll(doc, page_idx, para_idx + 1)
build_paragraph_mapping_all(doc) == MappingOfAll(doc, 1, 1)

build_paragraph_mapping(doc) == MappingFrom(doc, 1, 1)

\* ' '.join(cleaned_content.strip().split()).strip(), line 121
normalize(content) == strip(join(split(strip(content))))

\* (variants of the comparison of line 140)
is_better_or_equal(match_score, best) == ~Greater(best, match_score)
is_nonzero(match_score, best) == Greater(match_score, ScoreZero)

\* match_score > best_match_score, line 140
is_better(match_score, best) == Greater(match_score, best)

\* The score of paragraph number k for the fragment being matched.
ScoreOf(doc, mapping, content, k) ==
    calculate_match_score(content, WordTexts(ParagraphAt(doc, mapping[k])),
                          normalize(content))

Threshold == [num |-> 1, den |-> 10]

\* (variant of the test of line 289)
accepts_at_threshold(info, score) == info # None /\ ~Greater(Threshold, score)

\* best_paragraph_info and best_match_score > 0.1, line 289
accepts(info, score) == info # None /\ Greater(score, Threshold)

\* (variant of the if/elif chain with two branches setting the same field)
set_flag_swapped(word, annotation_type) ==
    IF annotation_type = "isTemei" THEN [word EXCEPT !.isTemei = TRUE]
    ELSE IF annotation_type = "isProba" THEN [word EXCEPT !.isProba = TRUE]
    ELSE IF annotation_type = "isSelected" THEN [word EXCEPT !.isSelected = TRUE]
    ELSE IF annotation_type = "isCerere" THEN [word EXCEPT !.isCerere = TRUE]
    ELSE IF annotation_type = "isReclamant" THEN [word EXCEPT !.isReclamant = TRUE]
    ELSE IF annotation_type = "isParat" THEN [word EXCEPT !.isReclamant = TRUE]
    ELSE word

\* the if/elif chain of lines 301-312
set_flag(word, annotation_type) ==
    IF annotation_type = "isTemei" THEN [word EXCEPT !.isTemei = TRUE]
    ELSE IF annotation_type = "isProba" THEN [word EXCEPT !.isProba = TRUE]
    ELSE IF annotation_type = "isSelected" THEN [word EXCEPT !.isSelected = TRUE]
    ELSE IF annotation_type = "isCerere" THEN [word EXCEPT !.isCerere = TRUE]
    ELSE IF annotation_type = "isReclamant" THEN [word EXCEPT !.isReclamant = TRUE]
    ELSE IF annotation_type = "isParat" THEN [word EXCEPT !.isParat = TRUE]
    ELSE word

\* (variant of the loop of line 298 that assigns the flag of every word)
flag_words_assign(paragraph, unique_positions, annotation_type) ==
    LET idx == NonBlank(paragraph)
    IN  [paragraph EXCEPT !.words =
            [i \in 1..Len(paragraph.words) |->
                IF \E pos \in 0..(Len(idx) - 1) : idx[pos + 1] = i
                THEN [paragraph.words[i] EXCEPT ![annotation_type] =
                         \E pos \in unique_positions :
                             pos < Len(idx) /\ idx[pos + 1] = i]
                ELSE paragraph.words[i]]]

\* (variant of the loop of line 298 that takes the positions as 1-based)
flag_words_shifted(paragraph, unique_positions, annotation_type) ==
    LET idx == NonBlank(paragraph)
    IN  [paragraph EXCEPT !.words =
            [i \in 1..Len(paragraph.words) |->
                IF \E pos \in unique_positions :
                      pos >= 1 /\ pos <= Len(idx) /\ idx[pos] = i
                THEN set_flag(paragraph.words[i], annotation_type)
                ELSE paragraph.words[i]]]

\* (variant of the loop of line 298 that takes the positions as indices
\*  of paragraph.words, blank words included)
flag_words_unfiltered(paragraph, unique_positions, annotation_type) ==
    [paragraph EXCEPT !.words =
        [i \in 1..Len(paragraph.words) |->
            IF (i - 1) \in unique_positions
            THEN set_flag(paragraph.words[i], annotation_type)
            ELSE paragraph.words[i]]]

\* (variant of the loop of line 298 that stores the filtered list
\*  paragraph_words as the words of the paragraph)
flag_words_filtered(paragraph, unique_positions, annotation_type) ==
    LET idx == NonBlank(paragraph)
    IN  [paragraph EXCEPT !.words =
            [j \in 1..Len(idx) |->
                IF (j - 1) \in unique_positions
                THEN set_flag(paragraph.words[idx[j]], annotation_type)
                ELSE paragraph.words[idx[j]]]]

\* The loop of lines 298-312 over one paragraph: paragraph_words[pos] is
\* the word of the paragraph at index NonBlank(paragraph)[pos + 1].
flag_words(paragraph, unique_positions, annotation_type) ==
    LET idx == NonBlank(paragraph)
    IN  [paragraph EXCEPT !.words =
            [i \in 1..Len(paragraph.words) |->
                IF \E pos \in unique_positions :
                      pos < Len(idx) /\ idx[pos + 1] = i
                THEN set_flag(paragraph.words[i], annotation_type)
                ELSE paragraph.words[i]]]

annotation_type == annotation_results[item_idx].annotation_type
result_text == annotation_results[item_idx].result_text

\* One call of update_task_status_callback: the status, and the progress,
\* error and document arguments, each None or <<value>>.
StatusCall(status, progress, error, doc) ==
    [status |-> status, progress |-> progress, error |-> error,
     document |-> doc]

\* update_task_status_callback(task_id, status, progress, error, document)
update_task_status_callback(status, progress, error, doc) ==
    status_updates \o <<StatusCall(status, <<progress>>, error, doc)>>

\* A handler that reports nothing.
report_failure_silent(e) == status_updates

\* The handler of lines 320-321: status FAILED with str(e), no progress
\* and no document.
report_failure(e) ==
    status_updates \o <<StatusCall("failed", None, <<e>>, None)>>

\* update_task_status (src/celery_tasks.py, lines 62-85) on the record of
\* the task: nothing happens when the record is missing; the status is
\* set, and the progress, the error and the document when they are given.
update_task_status(task, call) ==
    IF task = None THEN None
    ELSE <<[status |-> call.status,
            progress |-> IF call.progress # None THEN call.progress
                         ELSE task[1].progress,
            error |-> IF call.error # None THEN call.error
                      ELSE task[1].error,
            document |-> IF call.document # None THEN call.document
                         ELSE task[1].document]>>

\* The record after the calls of a sequence, one after the other.
RECURSIVE apply_calls(_, _)
apply_calls(task, calls) ==
    IF calls = <<>> THEN task
    ELSE apply_calls(update_task_status(task, Head(calls)), Tail(calls))

\* The statuses saved by the calls of a sequence.
RECURSIVE saved_by(_, _)
saved_by(task, calls) ==
    IF calls = <<>> THEN <<>>
    ELSE (IF task = None THEN <<>> ELSE <<Head(calls).status>>)
            \o saved_by(update_task_status(task, Head(calls)), Tail(calls))

\* create_initial_task (src/server.py, lines 80-91): the record has no
\* status yet ("" stands for the missing key), and no progress, error or
\* document.
create_initial_task ==
    <<[status |-> "", progress |-> None, error |-> None, document |-> None]>>

\* update_task_status(task_id, TaskStatus.PENDING, progress="Task created")
PendingCall == StatusCall("pending", <<"Task created">>, None, None)

\* update_task_status(task_id, TaskStatus.PROCESSING, "Starting document
\* annotation")
ProcessingCall ==
    StatusCall("processing", <<"Starting document annotation">>, None, None)

\* The calls of the status callback made by a step reach the record.
SaveCalls ==
    LET calls == SubSeq(status_updates', Len(status_updates) + 1,
                        Len(status_updates'))
    IN  /\ redis_task' = apply_calls(redis_task, calls)
        /\ written' = written \o saved_by(redis_task, calls)

\* t in all_annotation_types, line 158
IsAnnotationType(t) ==
    \E i \in DOMAIN all_annotation_types : all_annotation_types[i] = t

\* (variant of line 158 that lets every identifier pass)
invalid_types_none(types) == <<>>

\* [t for t in document.extraction_type if t not in all_annotation_types]
invalid_types(types) == SelectSeq(types, LAMBDA t : ~IsAnnotationType(t))

\* Lines 157-163, when the validation passes.
annotation_types ==
    IF extraction_type # None THEN extraction_type[1]
    ELSE all_annotation_types

\* A task of line 219 that has not returned, and one that returned
\* (annotation_type, response_content); response_content is None or
\* <<str>>.
PendingTask(type) ==
    [annotation_type |-> type, returned |-> FALSE, response_content |-> None]
ReturnedTask(type, content) ==
    [annotation_type |-> type, returned |-> TRUE, response_content |-> content]

\* annotation_results[key] = value on the items of a dict: the value of a
\* key that is present is replaced at its place, a new key goes last.
dict_set(items, key, value) ==
    IF \E i \in DOMAIN items : items[i].annotation_type = key
    THEN [i \in DOMAIN items |->
             IF items[i].annotation_type = key
             THEN [annotation_type |-> key, result_text |-> value]
             ELSE items[i]]
    ELSE Append(items, [annotation_type |-> key, result_text |-> value])

\* (variant of the loop of line 230 that keeps a failed type with an
\*  empty response)
RECURSIVE results_keep_failed(_)
results_keep_failed(list) ==
    IF list = <<>> THEN <<>>
    ELSE LET rest == results_keep_failed(SubSeq(list, 1, Len(list) - 1))
             result == list[Len(list)]
         IN  dict_set(rest, result.annotation_type,
                      IF result.response_content = None THEN <<>>
                      ELSE result.response_content[1])

\* The loop of lines 230-238: the dict of the responses that are not None.
RECURSIVE results_of(_)
results_of(list) ==
    IF list = <<>> THEN <<>>
    ELSE LET rest == results_of(SubSeq(list, 1, Len(list) - 1))
             result == list[Len(list)]
         IN  IF result.response_content = None THEN rest
             ELSE dict_set(rest, result.annotation_type,
                           result.response_content[1])

\* failed_types, lines 228 and 235
failed_types(list) ==
    SelectSeq(list, LAMBDA result : result.response_content = None)

\* (variant of line 247 with a copy that shares its words with the
\*  request)
request_after_write_shared(request, copy) == copy

\* The request after a write to the copy of line 247: the copy is deep,
\* it shares no word with the request.
request_after_write(request, copy) == request

\* Line 247 and lines 251-260.
BuildMapping ==
    /\ pc = "gathered"
    /\ annotated_document' = document
    /\ paragraph_mapping' = build_paragraph_mapping(document)
    /\ item_idx' = 1
    /\ pc' = "category"
    /\ UNCHANGED << document, annotation_results, matches, frag_idx,
                    cleaned_content, actual_para_num, best_match_score,
                    best_paragraph_info >>
    /\ UNCHANGED << extraction_type, annotation_results_list, status_updates >>
    /\ UNCHANGED << redis_task, written, http_response >>

\* One iteration of the loop of line 265, up to line 274.
NextCategory ==
    /\ pc = "category"
    /\ item_idx <= Len(annotation_results)
    /\ IF result_text = <<>>
       THEN /\ item_idx' = item_idx + 1
            /\ UNCHANGED << pc, matches, frag_idx >>
       ELSE /\ matches' = remove_duplicate_paragraphs_from_end(findall(result_text))
            /\ frag_idx' = 1
            /\ pc' = "fragment"
            /\ UNCHANGED item_idx
    /\ UNCHANGED << document, annotated_document, annotation_results,
                    paragraph_mapping, cleaned_content, actual_para_num,
                    best_match_score, best_paragraph_info >>
    /\ UNCHANGED << extraction_type, annotation_results_list, status_updates >>
    /\ UNCHANGED << redis_task, written, http_response >>

\* (variant of NextFragment in which the best score and paragraph of the
\*  fragment before are not reset)
NextFragmentKeepBest ==
    /\ pc = "fragment"
    /\ frag_idx <= Len(matches)
    /\ IF strip(matches[frag_idx]) = <<>>
       THEN /\ frag_idx' = frag_idx + 1
            /\ UNCHANGED << pc, cleaned_content, actual_para_num >>
       ELSE /\ cleaned_content' = strip(matches[frag_idx])
            /\ actual_para_num' = 0
            /\ pc' = "select"
            /\ UNCHANGED frag_idx
    /\ UNCHANGED << document, annotated_document, annotation_results,
                    paragraph_mapping, item_idx, matches, best_match_score,
                    best_paragraph_info >>
    /\ UNCHANGED << extraction_type, annotation_results_list, status_updates >>
    /\ UNCHANGED << redis_task, written, http_response >>

\* One iteration of the loop of line 278, up to the call of line 284 and
\* the first lines (117-121) of find_best_matching_paragraph.
NextFragment ==
    /\ pc = "fragment"
    /\ frag_idx <= Len(matches)
    /\ IF strip(matches[frag_idx]) = <<>>
       THEN /\ frag_idx' = frag_idx + 1
            /\ UNCHANGED << pc, cleaned_content, actual_para_num,
                            best_match_score, best_paragraph_info >>
       ELSE /\ cleaned_content' = strip(matches[frag_idx])
            /\ best_match_score' = ScoreZero
            /\ best_paragraph_info' = None
            /\ actual_para_num' = 0
            /\ pc' = "select"
            /\ UNCHANGED frag_idx
    /\ UNCHANGED << document, annotated_document, annotation_results,
                    paragraph_mapping, item_idx, matches >>
    /\ UNCHANGED << extraction_type, annotation_results_list, status_updates >>
    /\ UNCHANGED << redis_task, written, http_response >>

\* One iteration of the loop of line 123.  A paragraph of the mapping has
\* at least one word that is not blank.
ScanParagraph ==
    /\ pc = "select"
    /\ actual_para_num < Len(paragraph_mapping)
    /\ LET k == actual_para_num + 1
           match_score == ScoreOf(annotated_document, paragraph_mapping,
                                  cleaned_content, k)
       IN  /\ actual_para_num' = k
           /\ IF match_score = ScoreOne
              THEN /\ best_match_score' = match_score
                   /\ best_paragraph_info' = paragraph_mapping[k]
                   /\ pc' = "selected"
              ELSE IF is_better(match_score, best_match_score)
              THEN /\ best_match_score' = match_score
                   /\ best_paragraph_info' = paragraph_mapping[k]
                   /\ UNCHANGED pc
              ELSE UNCHANGED << best_match_score, best_paragraph_info, pc >>
    /\ UNCHANGED << document, annotated_document, annotation_results,
                    paragraph_mapping, item_idx, matches, frag_idx,
                    cleaned_content >>
    /\ UNCHANGED << extraction_type, annotation_results_list, status_updates >>
    /\ UNCHANGED << redis_task, written, http_response >>

\* The return of line 144.
ReturnBest ==
    /\ pc = "select"
    /\ actual_para_num = Len(paragraph_mapping)
    /\ pc' = "selected"
    /\ UNCHANGED << document, annotated_document, annotation_results,
                    paragraph_mapping, item_idx, matches, frag_idx,
                    cleaned_content, actual_para_num, best_match_score,
                    best_paragraph_info >>
    /\ UNCHANGED << extraction_type, annotation_results_list, status_updates >>
    /\ UNCHANGED << redis_task, written, http_response >>

\* (variant of ApplyFragment that flags the matching words of every
\*  paragraph, not only of the selected one)
ApplyFragmentEverywhere ==
    /\ pc = "selected"
    /\ accepts(best_paragraph_info, best_match_score)
    /\ annotated_document' =
           [pages |->
               [p \in 1..Len(annotated_document.pages) |->
                   [annotated_document.pages[p] EXCEPT !.paragraphs =
                       [q \in 1..Len(annotated_document.pages[p].paragraphs) |->
                           LET paragraph == annotated_document.pages[p].paragraphs[q]
                           IN  flag_words(paragraph,
                                   find_contiguous_matches(
                                       join(split(cleaned_content)),
                                       WordTexts(paragraph)),
                                   annotation_type)]]]]
    /\ frag_idx' = frag_idx + 1
    /\ pc' = "fragment"
    /\ UNCHANGED << document, annotation_results, paragraph_mapping, item_idx,
                    matches, cleaned_content, actual_para_num,
                    best_match_score, best_paragraph_info >>
    /\ UNCHANGED << extraction_type, annotation_results_list, status_updates >>
    /\ UNCHANGED << redis_task, written, http_response >>

\* Lines 289-312: the fragment is accepted and its words are flagged.
ApplyFragment ==
    /\ pc = "selected"
    /\ accepts(best_paragraph_info, best_match_score)
    /\ LET paragraph == ParagraphAt(annotated_document, best_paragraph_info)
           annotated_text_normalized == join(split(cleaned_content))
           unique_positions ==
               find_contiguous_matches(annotated_text_normalized,
                                       WordTexts(paragraph))
       IN  annotated_document' =
               [annotated_document EXCEPT
                   !.pages[best_paragraph_info[1]].paragraphs[best_paragraph_info[2]] =
                       flag_words(paragraph, unique_positions, annotation_type)]
    /\ document' = request_after_write(document, annotated_document')
    /\ frag_idx' = frag_idx + 1
    /\ pc' = "fragment"
    /\ UNCHANGED << annotation_results, paragraph_mapping, item_idx,
                    matches, cleaned_content, actual_para_num,
                    best_match_score, best_paragraph_info >>
    /\ UNCHANGED << extraction_type, annotation_results_list, status_updates >>
    /\ UNCHANGED << redis_task, written, http_response >>

\* Line 289 is false: the fragment is dropped.
RejectFragment ==
    /\ pc = "selected"
    /\ ~accepts(best_paragraph_info, best_match_score)
    /\ frag_idx' = frag_idx + 1
    /\ pc' = "fragment"
    /\ UNCHANGED << document, annotated_document, annotation_results,
                    paragraph_mapping, item_idx, matches, cleaned_content,
                    actual_para_num, best_match_score, best_paragraph_info >>
    /\ UNCHANGED << extraction_type, annotation_results_list, status_updates >>
    /\ UNCHANGED << redis_task, written, http_response >>

\* The loop of line 278 is exhausted.
EndCategory ==
    /\ pc = "fragment"
    /\ frag_idx > Len(matches)
    /\ item_idx' = item_idx + 1
    /\ pc' = "category"
    /\ UNCHANGED << document, annotated_document, annotation_results,
                    paragraph_mapping, matches, frag_idx, cleaned_content,
                    actual_para_num, best_match_score, best_paragraph_info >>
    /\ UNCHANGED << extraction_type, annotation_results_list, status_updates >>
    /\ UNCHANGED << redis_task, written, http_response >>

\* The loop of line 265 is exhausted; line 318.
Complete ==
    /\ pc = "category"
    /\ item_idx > Len(annotation_results)
    /\ status_updates' =
           update_task_status_callback("completed",
               "Document processing completed", None, <<annotated_document>>)
    /\ pc' = "done"
    /\ UNCHANGED << extraction_type, annotation_results_list >>
    /\ UNCHANGED << document, annotated_document, annotation_results,
                    paragraph_mapping, item_idx, matches, frag_idx,
                    cleaned_content, actual_para_num, best_match_score,
                    best_paragraph_info >>
    /\ SaveCalls
    /\ UNCHANGED http_response

Next ==
    \/ BuildMapping
    \/ NextCategory
    \/ NextFragment
    \/ ScanParagraph
    \/ ReturnBest
    \/ ApplyFragment
    \/ RejectFragment
    \/ EndCategory
    \/ Complete

-----------------------------------------------------------------------------
(* The inputs: documents and the responses of the model.                   *)

\* A Word with the defaults of its flags; its id and its box are set by
\* the paragraph that holds it.
Word(text) ==
    [id |-> "", text |-> text, left |-> 0, top |-> 0, width |-> 0,
     height |-> 0, isSelected |-> FALSE, isProba |-> FALSE,
     isExceptie |-> FALSE, isTemei |-> FALSE, isCerere |-> FALSE,
     isReclamant |-> FALSE, isParat |-> FALSE]

\* The words of a paragraph, left to right on one line.
Paragraph(texts) ==
    [words |->
        [i \in 1..Len(texts) |->
            [Word(texts[i]) EXCEPT !.id = ToString(i), !.left = 10 * i,
                                   !.top = 20, !.width = Len(texts[i]),
                                   !.height = 12]]]
Page(paragraphs) == [paragraphs |-> paragraphs]
Document(pages) == [pages |-> pages]

\* A response with these fragments, one <p>...</p> per line.
RECURSIVE Wrap(_)
Wrap(fragments) ==
    IF fragments = <<>> THEN <<>>
    ELSE OpenTag \o Head(fragments) \o CloseTag
            \o (IF Len(fragments) > 1 THEN <<"\n">> ELSE <<>>)
            \o Wrap(Tail(fragments))

\* A response that holds no <p>...</p> pair.
NoTags == <<"I", "o", "n">>

SeqsUpTo(S, n) == UNION {[1..k -> S] : k \in 0..n}

\* The state at line 246: the responses are gathered, nothing is merged.
InitWith(doc, results) ==
    /\ document = doc
    /\ extraction_type =
           <<[i \in 1..Len(results) |-> results[i].annotation_type]>>
    /\ annotation_results_list =
           [i \in 1..Len(results) |->
               ReturnedTask(results[i].annotation_type,
                            <<results[i].result_text>>)]
    /\ status_updates =
           <<StatusCall("extracting_content",
                        <<"Extracting text content from pages">>, None, None),
             StatusCall("annotating",
                        <<"Annotating document using LLM">>, None, None),
             StatusCall("annotating",
                        <<"Updating JSON based on LLM output">>, None, None)>>
    /\ redis_task =
           apply_calls(create_initial_task,
                       <<PendingCall, ProcessingCall>> \o status_updates)
    /\ written =
           saved_by(create_initial_task,
                    <<PendingCall, ProcessingCall>> \o status_updates)
    /\ http_response = None
    /\ annotated_document = Document(<<>>)
    /\ annotation_results = results
    /\ paragraph_mapping = <<>>
    /\ pc = "gathered"
    /\ item_idx = 0
    /\ matches = <<>>
    /\ frag_idx = 0
    /\ cleaned_content = <<>>
    /\ actual_para_num = 0
    /\ best_match_score = ScoreZero
    /\ best_paragraph_info = None

ParaSubsemnatul ==
    << <<"S", "u", "b", "s", "e", "m", "n", "a", "t", "u", "l">>,
       <<"I", "o", "n">>,
       <<"P", "o", "p", "e", "s", "c", "u">>,
       <<"s", "o", "l", "i", "c", "i", "t", "a_breve">>,
       <<"a", "n", "u", "l", "a", "r", "e", "a">>,
       <<"a", "c", "t", "u", "l", "u", "i", ".">> >>

ParaContractA ==
    << <<"C", "o", "n", "t", "r", "a", "c", "t", "u", "l">>,
       <<"n", "r">>,
       <<"5">> >>

ParaContractB ==
    << <<"c", "o", "n", "t", "r", "a", "c", "t", "u", "l">>,
       <<"N", "R", ".">>,
       <<"5">> >>

\* Ten words, "si" once and "a" twice.
ParaInstanta ==
    << <<"I", "n", "s", "t", "a", "n", "t", "a">>,
       <<"a">>,
       <<"a", "d", "m", "i", "s">>,
       <<"c", "e", "r", "e", "r", "e", "a">>,
       <<"s", "i">>,
       <<"a">>,
       <<"d", "i", "s", "p", "u", "s">>,
       <<"a", "n", "u", "l", "a", "r", "e", "a">>,
       <<"a", "c", "t", "u", "l", "u", "i">>,
       <<"a", "t", "a", "c", "a", "t">> >>

ParaDIon ==
    << <<"D", "I", "o", "n">>,
       <<"P", "o", "p", "e", "s", "c", "u">> >>

\* A blank word between two words.
ParaSpaced ==
    << <<"I", "o", "n">>,
       <<" ">>,
       <<"P", "o", "p", "e", "s", "c", "u">> >>

ParaBlank == << <<" ">>, <<>> >>

FragIonPopescu == <<"I", "o", "n", " ", "P", "o", "p", "e", "s", "c", "u">>
FragContract ==
    <<"C", "o", "n", "t", "r", "a", "c", "t", "u", "l", ",", " ",
      "n", "r", ".", " ", "5">>
FragSi == <<"S", "i">>
FragIon == <<"i", "o", "n">>

DocSubsemnatul == Document(<<Page(<<Paragraph(ParaSubsemnatul)>>)>>)
DocContractA == Document(<<Page(<<Paragraph(ParaContractA)>>)>>)
DocContractB == Document(<<Page(<<Paragraph(ParaContractB)>>)>>)
DocInstanta == Document(<<Page(<<Paragraph(ParaInstanta)>>)>>)

DocTwoPages ==
    Document(<<Page(<<Paragraph(ParaDIon), Paragraph(ParaBlank)>>),
               Page(<<Paragraph(ParaSubsemnatul)>>)>>)

\* Flags that are already true in the request.
DocPreflagged ==
    Document(<<Page(<<
        [words |->
            [Paragraph(ParaSpaced).words EXCEPT
                ![1].isParat = TRUE, ![1].isExceptie = TRUE,
                ![2].isReclamant = TRUE, ![3].isSelected = TRUE]]>>)>>)

MergeDocuments ==
    {DocSubsemnatul, DocContractA, DocContractB, DocInstanta, DocTwoPages,
     DocPreflagged}

MergeFragments == {FragIonPopescu, FragContract, FragSi, FragIon}

\* The orders in which annotation types are requested.
TypeOrders ==
    {<<all_annotation_types[i]>> : i \in DOMAIN all_annotation_types}
        \cup {<<"isParat", "isReclamant">>, <<"isReclamant", "isParat">>}

MaxFragments == 2

\* The lists of k fragment lists that hold at most n fragments together.
RECURSIVE Allocations(_, _)
Allocations(k, n) ==
    IF k = 0 THEN {<<>>}
    ELSE UNION {{<<fs>> \o rest : rest \in Allocations(k - 1, n - Len(fs))} :
                   fs \in SeqsUpTo(MergeFragments, n)}

MergeResults ==
    UNION {{[i \in 1..Len(order) |->
                [annotation_type |-> order[i], result_text |-> Wrap(a[i])]] :
            a \in Allocations(Len(order), MaxFragments)} :
           order \in TypeOrders}
      \cup {<<[annotation_type |-> "isTemei", result_text |-> NoTags]>>}

Init ==
    \E doc \in MergeDocuments, results \in MergeResults : InitWith(doc, results)

Spec == Init /\ [][Next]_vars

\* Inputs for the selection of the best paragraph: short words, documents
\* of up to MaxParagraphs paragraphs, one fragment.
\* Ten words, "b" once and "a" twice.
ParaTen ==
    << <<"d">>, <<"a">>, <<"e">>, <<"f">>, <<"a">>, <<"g">>, <<"h">>,
       <<"b">>, <<"i">>, <<"j">> >>

SelectParagraphs ==
    { ParaTen,
      << <<"a">>, <<"b">> >>,
      << <<"a">>, <<"b">>, <<"c">> >>,
      << <<"A", ".">>, <<"b">> >>,
      << <<"a">>, <<"c">> >>,
      << <<"c">> >>,
      << <<" ">> >> }

SelectFragments ==
    { <<"a", " ", "b">>,
      <<"a", " ", " ", "b">>,
      <<"A">>,
      <<"c", " ", "b">>,
      <<"b">>,
      <<" ">> }

MaxParagraphs == 2

\* The paragraphs on one page, or one page for each paragraph.
SelectDocuments ==
    UNION {{Document(<<Page([i \in 1..Len(ps) |-> Paragraph(ps[i])])>>),
            Document([i \in 1..Len(ps) |-> Page(<<Paragraph(ps[i])>>)])} :
           ps \in SeqsUpTo(SelectParagraphs, MaxParagraphs) \ {<<>>}}

SelectResults ==
    {<<[annotation_type |-> "isSelected", result_text |-> Wrap(<<f>>)]>> :
        f \in SelectFragments}
      \cup {<<[annotation_type |-> "isSelected", result_text |-> <<>>]>>}

InitSelect ==
    \E doc \in SelectDocuments, results \in SelectResults : InitWith(doc, results)

SpecSelect == InitSelect /\ [][Next]_vars

\* Inputs for the trimming of repeated fragments: one document, responses
\* of up to MaxMatches fragments.
TrimFragments == { <<"a">>, <<"b">>, <<"b", " ">>, <<"c">> }

MaxMatches == 4

TrimDocument ==
    Document(<<Page(<<Paragraph(<< <<"a">>, <<"b">> >>)>>)>>)

TrimResults ==
    {<<[annotation_type |-> "isProba", result_text |-> Wrap(fs)]>> :
        fs \in SeqsUpTo(TrimFragments, MaxMatches)}

InitTrim == \E results \in TrimResults : InitWith(TrimDocument, results)

SpecTrim == InitTrim /\ [][Next]_vars

\* Inputs for the comparison of words: one word in the document, one
\* fragment; spellings of "ca" and of "că" (a with breve, precomposed and
\* as "a" followed by the combining breve).
MatchWords ==
    { <<"c", "a">>,
      <<"C", "A", ".">>,
      <<"c", "-", "a">>,
      <<"c", "_", "a">>,
      <<"c", " ", "a">>,
      <<"c", "a_breve">>,
      <<"c", "a", "combining_breve">> }

ParaIonPopescu ==
    << <<"I", "o", "n">>, <<"P", "o", "p", "e", "s", "c", "u">> >>

\* Fragments that start and end inside a word; the second has a run of
\* eight spaces.
FragOnPop == <<"o", "n", " ", "P", "o", "p">>
FragOnPopSpaced ==
    <<"o", "n", " ", " ", " ", " ", " ", " ", " ", " ", "P", "o", "p">>

WordsDocuments ==
    {Document(<<Page(<<Paragraph(<<w>>)>>)>>) : w \in MatchWords}
        \cup {Document(<<Page(<<Paragraph(ParaIonPopescu)>>)>>)}

WordsResults ==
    {<<[annotation_type |-> "isProba", result_text |-> Wrap(<<f>>)]>> :
        f \in MatchWords \cup {FragOnPop, FragOnPopSpaced}}

InitWords ==
    \E doc \in WordsDocuments, results \in WordsResults : InitWith(doc, results)

SpecWords == InitWords /\ [][Next]_vars

-----------------------------------------------------------------------------
(* The whole of annotate_document_with_llm: the validation of the request, *)
(* the calls of the model, the merge, and the handler of line 320.         *)

\* Lines 150-219, up to the await of line 220.  An invalid extraction
\* type raises ValueError (line 160), which the handler of line 320
\* reports.
Begin ==
    /\ pc = "start"
    /\ LET extracting ==
               StatusCall("extracting_content",
                          <<"Extracting text content from pages">>, None, None)
       IN  IF extraction_type # None /\ invalid_types(extraction_type[1]) # <<>>
           THEN /\ status_updates' =
                       <<extracting,
                         StatusCall("failed", None,
                                    <<"Invalid extraction types">>, None)>>
                /\ pc' = "failed"
                /\ UNCHANGED annotation_results_list
           ELSE /\ status_updates' =
                       <<extracting,
                         StatusCall("annotating",
                                    <<"Annotating document using LLM">>,
                                    None, None)>>
                /\ annotation_results_list' =
                       [i \in 1..Len(annotation_types) |->
                           PendingTask(annotation_types[i])]
                /\ pc' = "annotating"
    /\ UNCHANGED << document, extraction_type, annotated_document,
                    annotation_results, paragraph_mapping, item_idx, matches,
                    frag_idx, cleaned_content, actual_para_num,
                    best_match_score, best_paragraph_info >>
    /\ SaveCalls
    /\ UNCHANGED http_response

\* What one call of the model can give for an annotation type: None when
\* the request fails or times out (lines 209-213) or the message has no
\* content, or <<response_content>>.
Outcomes(type) ==
    IF type \in {"isReclamant", "isParat"}
    THEN {None, << <<>> >>, <<NoTags>>, <<Wrap(<<FragIonPopescu>>)>>,
          <<Wrap(<<FragSi, FragIonPopescu>>)>>}
    ELSE {None, <<Wrap(<<FragIonPopescu>>)>>}

\* process_annotation_type (lines 169-213) returns for one of the tasks;
\* the tasks run concurrently and return in any order.
ModelCallReturns ==
    /\ pc = "annotating"
    /\ \E i \in DOMAIN annotation_results_list :
          /\ ~annotation_results_list[i].returned
          /\ \E content \in Outcomes(annotation_results_list[i].annotation_type) :
                annotation_results_list' =
                    [annotation_results_list EXCEPT
                        ![i] = ReturnedTask(@.annotation_type, content)]
    /\ UNCHANGED << document, extraction_type, status_updates,
                    annotated_document, annotation_results, paragraph_mapping,
                    pc, item_idx, matches, frag_idx, cleaned_content,
                    actual_para_num, best_match_score, best_paragraph_info >>
    /\ UNCHANGED << redis_task, written, http_response >>

\* (variant of Gather that does not wait for every task: it goes on as
\*  soon as one task has returned)
GatherFirstCompleted ==
    /\ pc = "annotating"
    /\ \E i \in DOMAIN annotation_results_list :
          annotation_results_list[i].returned
    /\ annotation_results' = results_of(annotation_results_list)
    /\ status_updates' =
           status_updates
             \o <<StatusCall("annotating",
                             <<"Updating JSON based on LLM output">>,
                             None, None)>>
    /\ pc' = "gathered"
    /\ UNCHANGED << document, extraction_type, annotation_results_list,
                    annotated_document, paragraph_mapping, item_idx, matches,
                    frag_idx, cleaned_content, actual_para_num,
                    best_match_score, best_paragraph_info >>
    /\ SaveCalls
    /\ UNCHANGED http_response

\* Lines 220-246: every task has returned; the responses that are not
\* None are kept, in the order of the tasks.
Gather ==
    /\ pc = "annotating"
    /\ \A i \in DOMAIN annotation_results_list :
          annotation_results_list[i].returned
    /\ annotation_results' = results_of(annotation_results_list)
    /\ status_updates' =
           status_updates
             \o (IF failed_types(annotation_results_list) # <<>>
                 THEN <<StatusCall("annotating",
                                   <<"Some annotation types failed">>,
                                   None, None)>>
                 ELSE <<>>)
             \o <<StatusCall("annotating",
                             <<"Updating JSON based on LLM output">>,
                             None, None)>>
    /\ pc' = "gathered"
    /\ UNCHANGED << document, extraction_type, annotation_results_list,
                    annotated_document, paragraph_mapping, item_idx, matches,
                    frag_idx, cleaned_content, actual_para_num,
                    best_match_score, best_paragraph_info >>
    /\ SaveCalls
    /\ UNCHANGED http_response

\* An exception raised while a fragment is processed (lines 279-312):
\* the only handler around the merge is that of lines 320-321.
MergeFault ==
    /\ pc \in {"select", "selected"}
    /\ status_updates' = report_failure("internal fault")
    /\ pc' = "failed"
    /\ UNCHANGED << document, extraction_type, annotation_results_list,
                    annotated_document, annotation_results, paragraph_mapping,
                    item_idx, matches, frag_idx, cleaned_content,
                    actual_para_num, best_match_score, best_paragraph_info >>
    /\ SaveCalls
    /\ UNCHANGED http_response

NextTask ==
    \/ Begin
    \/ ModelCallReturns
    \/ Gather
    \/ MergeFault
    \/ Next

TaskDocuments == {DocSubsemnatul, DocPreflagged}

\* The values of document.extraction_type: None, or <<list>>.
TaskRequests ==
    {None, << <<>> >>, << <<"isReclamant">> >>,
     << <<"isReclamant", "isParat">> >>, << <<"isParat", "isNume">> >>,
     << <<"isNume">> >>}

\* The state at the call of annotate_document_with_llm.
InitTask ==
    /\ document \in TaskDocuments
    /\ extraction_type \in TaskRequests
    /\ annotation_results_list = <<>>
    /\ status_updates = <<>>
    /\ redis_task =
           apply_calls(create_initial_task, <<PendingCall, ProcessingCall>>)
    /\ written =
           saved_by(create_initial_task, <<PendingCall, ProcessingCall>>)
    /\ http_response = None
    /\ annotated_document = Document(<<>>)
    /\ annotation_results = <<>>
    /\ paragraph_mapping = <<>>
    /\ pc = "start"
    /\ item_idx = 0
    /\ matches = <<>>
    /\ frag_idx = 0
    /\ cleaned_content = <<>>
    /\ actual_para_num = 0
    /\ best_match_score = ScoreZero
    /\ best_paragraph_info = None

SpecTask == InitTask /\ [][NextTask]_vars

-----------------------------------------------------------------------------
(* The server and the Celery task around annotate_document_with_llm: the   *)
(* record of the task in Redis and the requests about it.                  *)

run_vars == << document, extraction_type, annotation_results_list,
               status_updates, annotated_document, annotation_results,
               paragraph_mapping, item_idx, matches, frag_idx,
               cleaned_content, actual_para_num, best_match_score,
               best_paragraph_info >>

\* A response of the server: the HTTP status code, and the status, the
\* document and the error of its body ("" and None where it has none).
Response(code, status, doc, error) ==
    <<[code |-> code, status |-> status, document |-> doc, error |-> error]>>

\* POST /annotate-document (src/server.py, lines 115-138): the record is
\* created, PENDING is written, the task is enqueued and the answer is
\* PENDING.
annotate_document ==
    /\ pc = "new"
    /\ redis_task' = apply_calls(create_initial_task, <<PendingCall>>)
    /\ written' = written \o saved_by(create_initial_task, <<PendingCall>>)
    /\ http_response' = Response(200, "pending", None, None)
    /\ pc' = "queued"
    /\ UNCHANGED run_vars

\* annotate_document_task (src/celery_tasks.py, lines 99-106), up to the
\* call of annotate_document_with_llm: PROCESSING is written.
annotate_document_task ==
    /\ pc = "queued"
    /\ redis_task' = apply_calls(redis_task, <<ProcessingCall>>)
    /\ written' = written \o saved_by(redis_task, <<ProcessingCall>>)
    /\ pc' = "start"
    /\ UNCHANGED << run_vars, http_response >>

\* The record was saved with setex (src/celery_tasks.py, lines 50-54):
\* Redis drops it when TASK_EXPIRATION_SECONDS have passed since the
\* last save.
Expire ==
    /\ pc # "new"
    /\ redis_task # None
    /\ redis_task' = None
    /\ UNCHANGED << run_vars, written, http_response, pc >>

\* GET /task-status/{task_id} (src/server.py, lines 167-185).
get_task_status ==
    /\ pc # "new"
    /\ http_response' =
           IF redis_task = None THEN Response(404, "", None, None)
           ELSE Response(200, redis_task[1].status, None, None)
    /\ UNCHANGED << run_vars, redis_task, written, pc >>

\* A retrieval that leaves the record of a COMPLETED task in Redis.
get_annotated_document_keeps ==
    /\ pc # "new"
    /\ http_response' =
           IF redis_task = None THEN Response(404, "", None, None)
           ELSE IF redis_task[1].status = "failed"
           THEN Response(200, "failed", None, redis_task[1].error)
           ELSE IF redis_task[1].status # "completed"
           THEN Response(202, "", None, None)
           ELSE Response(200, "completed", redis_task[1].document, None)
    /\ UNCHANGED << run_vars, redis_task, written, pc >>

\* GET /annotated-document/{task_id} (src/server.py, lines 187-227): 404
\* without a record, the error of a FAILED task, 202 while the task is not
\* COMPLETED, and else the document, after which the record is deleted
\* (line 223).
get_annotated_document ==
    /\ pc # "new"
    /\ IF redis_task = None
       THEN /\ http_response' = Response(404, "", None, None)
            /\ UNCHANGED redis_task
       ELSE IF redis_task[1].status = "failed"
       THEN /\ http_response' =
                   Response(200, "failed", None, redis_task[1].error)
            /\ UNCHANGED redis_task
       ELSE IF redis_task[1].status # "completed"
       THEN /\ http_response' = Response(202, "", None, None)
            /\ UNCHANGED redis_task
       ELSE /\ http_response' =
                   Response(200, "completed", redis_task[1].document, None)
            /\ redis_task' = None
    /\ UNCHANGED << run_vars, written, pc >>

NextServer ==
    \/ annotate_document
    \/ annotate_document_task
    \/ Expire
    \/ get_task_status
    \/ get_annotated_document
    \/ NextTask

ServerRequests == {<< <<"isReclamant">> >>, << <<"isNume">> >>}

\* The state when the request POST /annotate-document arrives.
InitServer ==
    /\ document = DocSubsemnatul
    /\ extraction_type \in ServerRequests
    /\ annotation_results_list = <<>>
    /\ status_updates = <<>>
    /\ redis_task = None
    /\ written = <<>>
    /\ http_response = None
    /\ annotated_document = Document(<<>>)
    /\ annotation_results = <<>>
    /\ paragraph_mapping = <<>>
    /\ pc = "new"
    /\ item_idx = 0
    /\ matches = <<>>
    /\ frag_idx = 0
    /\ cleaned_content = <<>>
    /\ actual_para_num = 0
    /\ best_match_score = ScoreZero
    /\ best_paragraph_info = None

SpecServer == InitServer /\ [][NextServer]_vars

-----------------------------------------------------------------------------
(* Properties.                                                             *)

\* The score the Paragraph Scorer gives paragraph number k for the
\* fragment being matched.
Score(k) ==
    ScoreOf(annotated_document, paragraph_mapping, cleaned_content, k)

ParagraphNumbers == 1..Len(paragraph_mapping)

\* The joined text of paragraph number k.
ParagraphText(k) ==
    paragraph_text_of(WordTexts(ParagraphAt(annotated_document, paragraph_mapping[k])))

\* The number of the returned paragraph.
ReturnedNumber ==
    CHOOSE k \in ParagraphNumbers : paragraph_mapping[k] = best_paragraph_info

Min(S) == CHOOSE x \in S : \A y \in S : x <= y

\* C1: if the whitespace-normalized fragment is a substring of the joined
\* text of some paragraph of the mapping, the selector returns score 1.0
\* with the first paragraph that scores 1.0, and has scanned no paragraph
\* after it.
C1_ExactMatchReturned ==
    (pc = "selected"
        /\ \E k \in ParagraphNumbers :
              contains(ParagraphText(k), normalize(cleaned_content)))
    => /\ best_match_score = ScoreOne
       /\ best_paragraph_info # None
       /\ ReturnedNumber = Min({k \in ParagraphNumbers : Score(k) = ScoreOne})
       /\ actual_para_num = ReturnedNumber

\* C2: the returned paragraph has the maximum score of all paragraphs of
\* the mapping, and no paragraph is returned when every score is 0.
C2_BestIsMaximal ==
    pc = "selected"
    => /\ \A k \in ParagraphNumbers : ~Greater(Score(k), best_match_score)
       /\ best_paragraph_info # None
            => /\ best_paragraph_info \in Range(paragraph_mapping)
               /\ Score(ReturnedNumber) = best_match_score
       /\ (\A k \in ParagraphNumbers : Score(k) = ScoreZero)
            => best_paragraph_info = None

\* A later paragraph replaced an earlier one that had matched in part.
C2_Witness ==
    /\ pc = "selected"
    /\ best_paragraph_info # None
    /\ ReturnedNumber = 2
    /\ Greater(Score(1), ScoreZero)
    /\ Greater(Score(2), Score(1))

\* C3: of the paragraphs that share the maximum nonzero score the one with
\* the lowest number is returned.
C3_TieBreak ==
    (pc = "selected" /\ best_paragraph_info # None)
    => \A k \in ParagraphNumbers :
          Score(k) = best_match_score => ReturnedNumber <= k

\* Two paragraphs tie below 1.0 and the earlier one is returned.
C3_Witness ==
    /\ pc = "selected"
    /\ best_paragraph_info # None
    /\ best_match_score # ScoreOne
    /\ ReturnedNumber = 1
    /\ Len(paragraph_mapping) = 2
    /\ Score(2) = Score(1)

\* The places <<page, paragraph, word>> of the words of a document.
WordPlaces(doc) ==
    UNION {UNION {{<<pg, pa, w>> :
                      w \in 1..Len(doc.pages[pg].paragraphs[pa].words)} :
                  pa \in 1..Len(doc.pages[pg].paragraphs)} :
           pg \in 1..Len(doc.pages)}

WordAt(doc, place) == doc.pages[place[1]].paragraphs[place[2]].words[place[3]]

\* C4: flags change only when the best score is above 0.1; at 0.1 or
\* below no flag changes and the loop goes on to the next fragment.
C4_Threshold ==
    [][/\ (pc = "selected" /\ ~Greater(best_match_score, Threshold))
            => /\ annotated_document' = annotated_document
               /\ pc' = "fragment"
               /\ frag_idx' = frag_idx + 1
       /\ (pc # "gathered" /\ annotated_document' # annotated_document)
            => (pc = "selected" /\ Greater(best_match_score, Threshold))]_vars

\* A fragment whose best score was exactly 0.1 has been dropped.
C4_Witness ==
    /\ pc = "fragment"
    /\ frag_idx = 2
    /\ best_match_score = Threshold
    /\ best_paragraph_info # None
    /\ annotated_document = document

\* C5: "Contractul, nr. 5" is matched to ["Contractul", "nr", "5"] and to
\* ["contractul", "NR.", "5"] alike, and all three words are flagged.
C5_ContractMatched ==
    (/\ pc = "done"
     /\ document \in {DocContractA, DocContractB}
     /\ Len(annotation_results) = 1
     /\ annotation_results[1].result_text = Wrap(<<FragContract>>))
    => \A w \in 1..3 :
          annotated_document.pages[1].paragraphs[1].words[w][annotation_results[1].annotation_type]

InFragmentLoop == pc \in {"fragment", "select", "selected"}

\* C6: after the trimming the list has fewer than two fragments or its
\* last fragment differs from the one before it.
C6_TrailingRunCollapsed ==
    InFragmentLoop
    => \/ Len(matches) < 2
       \/ strip(matches[Len(matches)]) # strip(matches[Len(matches) - 1])

\* C7: the trimmed list is a prefix of the extracted list and every
\* removed fragment equals, after trimming, the last one kept.
C7_OnlyTrailingDuplicates ==
    InFragmentLoop
    => LET extracted == findall(result_text)
       IN  /\ Len(matches) <= Len(extracted)
           /\ matches = SubSeq(extracted, 1, Len(matches))
           /\ extracted # <<>> => matches # <<>>
           /\ \A i \in (Len(matches) + 1)..Len(extracted) :
                 strip(extracted[i]) = strip(matches[Len(matches)])
           /\ (Len(extracted) >= 2
                 /\ strip(extracted[Len(extracted)])
                        # strip(extracted[Len(extracted) - 1]))
                 => matches = extracted

\* [A, B, B, B] has become [A, B].
C7_Witness ==
    /\ InFragmentLoop
    /\ Len(findall(result_text)) = 4
    /\ matches = << <<"a">>, <<"b">> >>

\* The fragment the loop of line 278 has just finished with.
LastFragment == strip(matches[frag_idx - 1])

AfterFragment ==
    pc = "fragment" /\ frag_idx > 1 /\ LastFragment # <<>>

\* The fragment quotes words i..j of the words of the paragraph that are
\* not blank, as they stand, joined by single spaces.
Quotes(paragraph, i, j, content) ==
    LET texts == WordTexts(paragraph)
    IN  join([m \in 1..(j - i + 1) |-> strip(texts[i + m - 1])]) = content

RunFlagged(paragraph, i, j, flag) ==
    \A m \in i..j : paragraph.words[NonBlank(paragraph)[m]][flag]

\* The paragraphs numbered in Numbers have every quoted run flagged.
QuotedRunsFlagged(Numbers) ==
    \A k \in Numbers :
       LET paragraph == ParagraphAt(annotated_document, paragraph_mapping[k])
           n == Len(NonBlank(paragraph))
       IN  \A i \in 1..n : \A j \in i..n :
              Quotes(paragraph, i, j, LastFragment)
                 => RunFlagged(paragraph, i, j, annotation_type)

IonPopescuResults ==
    <<[annotation_type |-> "isReclamant",
       result_text |-> Wrap(<<FragIonPopescu>>)]>>

\* The scenario: <p>Ion Popescu</p> for isReclamant on the one paragraph
\* "Subsemnatul Ion Popescu solicita anularea actului.".
IonPopescuScenario ==
    /\ pc = "done"
    /\ document = DocSubsemnatul
    /\ annotation_results = IonPopescuResults

IonPopescuOutcome ==
    /\ best_match_score = ScoreOne
    /\ \A w \in 1..6 : \A f \in FlagNames :
          annotated_document.pages[1].paragraphs[1].words[w][f]
             <=> (f = "isReclamant" /\ w \in {2, 3})

\* C8 as stated: the scenario ends with exactly "Ion" and "Popescu"
\* flagged isReclamant, and a fragment that quotes a run of whole words of
\* any paragraph has every word of that run flagged.
C8_AnyQuotedRunFlagged ==
    /\ IonPopescuScenario => IonPopescuOutcome
    /\ AfterFragment => QuotedRunsFlagged(ParagraphNumbers)

\* C8, amended: the scenario as stated, and a fragment that quotes a run
\* of whole words of the paragraph selected for it has every word of that
\* run flagged.
C8_EndToEnd ==
    /\ IonPopescuScenario => IonPopescuOutcome
    /\ AfterFragment
         => QuotedRunsFlagged({k \in ParagraphNumbers :
                                  paragraph_mapping[k] = best_paragraph_info})

C8_Witness == IonPopescuScenario /\ IonPopescuOutcome

\* C9: no step turns a flag from true to false, and the flags that are
\* true in the request are true in the annotated copy.
C9_FlagsMonotonic ==
    /\ [](pc # "gathered"
            => \A place \in WordPlaces(document) : \A f \in FlagNames :
                  WordAt(document, place)[f]
                     => WordAt(annotated_document, place)[f])
    /\ [][pc # "gathered"
            => \A place \in WordPlaces(document) : \A f \in FlagNames :
                  WordAt(annotated_document, place)[f]
                     => WordAt(annotated_document', place)[f]]_vars

\* "Ion Popescu" and then "ion" were applied for one annotation type:
\* "Popescu", flagged by the first, is still flagged after the second.
C9_Witness ==
    /\ pc = "fragment"
    /\ frag_idx = 3
    /\ matches = <<FragIonPopescu, FragIon>>
    /\ document = DocSubsemnatul
    /\ \A w \in {2, 3} :
          annotated_document.pages[1].paragraphs[1].words[w][annotation_type]

\* The annotation types whose merge has begun.
TypesBegun ==
    {annotation_results[i].annotation_type :
        i \in {j \in DOMAIN annotation_results : j <= item_idx}}

\* C10: a step changes only the flag of the annotation type being merged,
\* and the flags of every type whose merge has not begun are those of the
\* request.
C10_CategoryIndependence ==
    /\ [](pc # "gathered"
            => \A place \in WordPlaces(document) :
                  \A f \in FlagNames \ TypesBegun :
                     WordAt(annotated_document, place)[f]
                        = WordAt(document, place)[f])
    /\ [][pc # "gathered"
            => \A place \in WordPlaces(document) : \A f \in FlagNames :
                  WordAt(annotated_document', place)[f]
                        # WordAt(annotated_document, place)[f]
                     => (item_idx \in DOMAIN annotation_results
                            /\ f = annotation_type)]_vars

\* A word was flagged for isParat and then for isReclamant, and has both.
C10_Witness ==
    /\ pc = "done"
    /\ Len(annotation_results) = 2
    /\ annotation_results[1].annotation_type = "isParat"
    /\ \E place \in WordPlaces(document) :
          /\ WordAt(annotated_document, place).isParat
          /\ WordAt(annotated_document, place).isReclamant
          /\ ~WordAt(document, place).isParat
          /\ ~WordAt(document, place).isReclamant

\* What the merge must leave alone: the pages, the paragraphs and the
\* words in their order, each word with its id, its text and its box.
Unflagged(doc) ==
    [p \in 1..Len(doc.pages) |->
        [q \in 1..Len(doc.pages[p].paragraphs) |->
            [i \in 1..Len(doc.pages[p].paragraphs[q].words) |->
                LET word == doc.pages[p].paragraphs[q].words[i]
                IN  [id |-> word.id, text |-> word.text, left |-> word.left,
                     top |-> word.top, width |-> word.width,
                     height |-> word.height]]]]

\* The copy of line 247 exists and is being merged, or is merged.
Merging == pc \in {"category", "fragment", "select", "selected", "done"}

\* Some paragraph of the document has no word that is not blank.
HasEmptyParagraph(doc) ==
    \E p \in 1..Len(doc.pages) :
        \E q \in 1..Len(doc.pages[p].paragraphs) :
            NonBlank(doc.pages[p].paragraphs[q]) = <<>>

\* C11: the merge changes nothing but flags: at every point of the merge
\* the copy has the pages, paragraphs and words of the request in the
\* same order, every word with its id, text and box, and the paragraphs
\* whose words are all blank are still at their place.
C11_OnlyFlagsChange ==
    Merging => Unflagged(annotated_document) = Unflagged(document)

\* A merge that set flags in a document with an empty paragraph and a
\* merge that set flags in a paragraph with a blank word.
C11_Witness ==
    /\ pc = "done"
    /\ annotated_document # document
    /\ \/ HasEmptyParagraph(document)
       \/ \E place \in WordPlaces(document) :
             strip(WordAt(document, place).text) = <<>>

\* The calls of the status callback that carry a document.
DocumentCalls ==
    {i \in DOMAIN status_updates : status_updates[i].document # None}

Finished == pc \in {"done", "failed"}

\* The last call of the status callback.
LastCall == status_updates[Len(status_updates)]

\* C12: the merge works on a private deep copy: no step changes a flag
\* (or anything else) of the request, the copy is handed to the status
\* callback at most once, only with status COMPLETED and only as the last
\* call, when the merge is over, and a run that ends FAILED has handed
\* over no document.
C12_PrivateCopy ==
    /\ [](/\ \A i \in DocumentCalls :
                /\ status_updates[i].status = "completed"
                /\ i = Len(status_updates)
                /\ pc = "done"
                /\ status_updates[i].document = <<annotated_document>>
          /\ Cardinality(DocumentCalls) <= 1
          /\ pc = "done" => Cardinality(DocumentCalls) = 1
          /\ pc = "failed" => DocumentCalls = {})
    /\ [][document' = document]_vars

\* A completed run whose copy differs from the request in some flag.
C12_Witness ==
    /\ pc = "done"
    /\ annotated_document # document
    /\ LastCall.status = "completed"
    /\ LastCall.document = <<annotated_document>>

\* The merge as a function of the request and the gathered responses:
\* find_best_matching_paragraph (lines 115-144), from paragraph number k.
RECURSIVE SelectFrom(_, _, _, _, _, _)
SelectFrom(doc, mapping, content, k, best_score, best_info) ==
    IF k > Len(mapping) THEN <<best_score, best_info>>
    ELSE LET match_score == ScoreOf(doc, mapping, content, k)
         IN  IF match_score = ScoreOne THEN <<match_score, mapping[k]>>
             ELSE IF is_better(match_score, best_score)
             THEN SelectFrom(doc, mapping, content, k + 1, match_score,
                             mapping[k])
             ELSE SelectFrom(doc, mapping, content, k + 1, best_score,
                             best_info)

find_best_matching_paragraph(content, mapping, doc) ==
    SelectFrom(doc, mapping, content, 1, ScoreZero, None)

\* The body of the loop of line 278 for one fragment.
merge_fragment(doc, mapping, type, para_content) ==
    LET content == strip(para_content)
        best == find_best_matching_paragraph(content, mapping, doc)
    IN  IF content = <<>> \/ ~accepts(best[2], best[1]) THEN doc
        ELSE LET paragraph == ParagraphAt(doc, best[2])
                 unique_positions ==
                     find_contiguous_matches(join(split(content)),
                                             WordTexts(paragraph))
             IN  [doc EXCEPT
                     !.pages[best[2][1]].paragraphs[best[2][2]] =
                         flag_words(paragraph, unique_positions, type)]

\* The loop of line 278.
RECURSIVE merge_matches(_, _, _, _)
merge_matches(doc, mapping, type, ms) ==
    IF ms = <<>> THEN doc
    ELSE merge_matches(merge_fragment(doc, mapping, type, Head(ms)),
                       mapping, type, Tail(ms))

\* The loop of line 265.
RECURSIVE merge_results(_, _, _)
merge_results(doc, mapping, results) ==
    IF results = <<>> THEN doc
    ELSE LET item == Head(results)
             merged ==
                 IF item.result_text = <<>> THEN doc
                 ELSE merge_matches(doc, mapping, item.annotation_type,
                         remove_duplicate_paragraphs_from_end(
                             findall(item.result_text)))
         IN  merge_results(merged, mapping, Tail(results))

\* Lines 247-312 for a request and the gathered responses.
merge(doc, results) ==
    merge_results(doc, build_paragraph_mapping(doc), results)

\* The tasks whose call failed, and the responses a run gathers in which
\* only the other calls were made.
FailedTasks == failed_types(annotation_results_list)
ResultsWithoutFailed ==
    LET made == SelectSeq(annotation_results_list,
                          LAMBDA result : result.response_content # None)
    IN  [i \in 1..Len(made) |->
            [annotation_type |-> made[i].annotation_type,
             result_text |-> made[i].response_content[1]]]

AllReturned ==
    \A i \in DOMAIN annotation_results_list :
        annotation_results_list[i].returned

Gathered == pc = "gathered" \/ Merging

\* C13: a model call that fails or times out is isolated: the responses
\* are gathered all the same and the failure is never reported as FAILED;
\* what is merged is what a run without the failing call merges; the
\* merged document is the merge of those responses; the type of the
\* failing call has on every word the flag value of the request.
C13_FailureIsolation ==
    /\ (pc = "annotating" /\ AllReturned) => ENABLED Gather
    /\ \A i \in DOMAIN status_updates :
          status_updates[i].status = "failed"
          => status_updates[i].error
                \in {<<"Invalid extraction types">>, <<"internal fault">>}
    /\ Gathered => annotation_results = ResultsWithoutFailed
    /\ pc = "done"
       => /\ LastCall.status = "completed"
          /\ annotated_document = merge(document, ResultsWithoutFailed)
          /\ \A i \in DOMAIN FailedTasks :
                \A place \in WordPlaces(document) :
                    WordAt(annotated_document, place)[FailedTasks[i].annotation_type]
                        = WordAt(document, place)[FailedTasks[i].annotation_type]

\* The call for isReclamant failed, the response for isParat was merged
\* and set flags, and the task is COMPLETED.
C13_Witness ==
    /\ pc = "done"
    /\ Len(FailedTasks) = 1
    /\ FailedTasks[1].annotation_type = "isReclamant"
    /\ Len(annotation_results) = 1
    /\ annotated_document # document
    /\ LastCall.status = "completed"

InFragment == pc \in {"select", "selected"}

\* C14: a step that leaves the processing of a fragment without finishing
\* it (an internal fault) abandons the remaining fragments of the
\* category, keeps the flags set so far, goes on with the next category
\* and reports no failure.
C14_FaultSkipsCategory ==
    [][(InFragment /\ pc' \notin {"select", "selected", "fragment"})
          => /\ pc' = "category"
             /\ item_idx' = item_idx + 1
             /\ annotated_document' = annotated_document
             /\ status_updates' = status_updates]_vars

\* The request names an identifier outside the six annotation types.
HasInvalidType ==
    /\ extraction_type # None
    /\ \E i \in DOMAIN extraction_type[1] :
          ~IsAnnotationType(extraction_type[1][i])

\* C15: a request that names an identifier outside the six annotation
\* types is rejected before any model call and before the merge: no task
\* of a model call is ever created, nothing is gathered, no copy is made
\* or flagged, no document is handed over, no call has status COMPLETED,
\* and the run ends FAILED with the validation error.
C15_InvalidTypeRejected ==
    HasInvalidType
    => /\ pc \in {"start", "failed"}
       /\ annotation_results_list = <<>>
       /\ annotation_results = <<>>
       /\ annotated_document = Document(<<>>)
       /\ DocumentCalls = {}
       /\ \A i \in DOMAIN status_updates :
             status_updates[i].status # "completed"
       /\ pc = "start" => ENABLED Begin
       /\ pc = "failed"
          => /\ LastCall.status = "failed"
             /\ LastCall.error = <<"Invalid extraction types">>

\* A request with a valid and an invalid identifier has ended FAILED.
C15_Witness ==
    /\ pc = "failed"
    /\ extraction_type = << <<"isParat", "isNume">> >>
    /\ LastCall.status = "failed"

\* The response of a task is absent, empty, or holds no <p>...</p> pair.
Fragmentless(result) ==
    \/ result.response_content = None
    \/ LET text == result.response_content[1]
           open == find(text, OpenTag, 1)
       IN  open = 0 \/ find(text, CloseTag, open + Len(OpenTag)) = 0

FragmentlessTasks == SelectSeq(annotation_results_list, Fragmentless)

\* The responses a run gathers in which only the calls that returned
\* fragments were made.
ResultsWithFragments ==
    LET made == SelectSeq(annotation_results_list,
                          LAMBDA result : ~Fragmentless(result))
    IN  [i \in 1..Len(made) |->
            [annotation_type |-> made[i].annotation_type,
             result_text |-> made[i].response_content[1]]]

\* C16: an annotation type whose response is absent, empty or without a
\* <p>...</p> pair has no fragment: its loop over fragments has nothing
\* to do, no word changes its flag of that type, no failure is reported
\* for it, the merged document is the merge of the other responses, and
\* the run ends COMPLETED.
C16_NoFragmentsNoEffect ==
    /\ (Gathered /\ AllReturned)
       => \A i \in DOMAIN FragmentlessTasks :
             \A place \in WordPlaces(document) :
                 Merging =>
                    WordAt(annotated_document, place)[FragmentlessTasks[i].annotation_type]
                       = WordAt(document, place)[FragmentlessTasks[i].annotation_type]
    /\ (pc \in {"fragment", "select", "selected"}
            /\ \E i \in DOMAIN FragmentlessTasks :
                  FragmentlessTasks[i].annotation_type = annotation_type)
       => (matches = <<>> /\ pc = "fragment")
    /\ (pc = "failed" /\ ~HasInvalidType)
       => /\ LastCall.error = <<"internal fault">>
          /\ matches # <<>>
          /\ \A i \in DOMAIN FragmentlessTasks :
                FragmentlessTasks[i].annotation_type # annotation_type
    /\ pc = "done"
       => /\ LastCall.status = "completed"
          /\ annotated_document = merge(document, ResultsWithFragments)

\* A completed run in which the response for isReclamant had no
\* <p>...</p> pair and the response for isParat set flags.
C16_Witness ==
    /\ pc = "done"
    /\ LastCall.status = "completed"
    /\ Len(annotation_results_list) = 2
    /\ annotation_results_list[1] = ReturnedTask("isReclamant", <<NoTags>>)
    /\ ~Fragmentless(annotation_results_list[2])
    /\ annotated_document # document

\* The non-empty words of paragraph number k and the words of the
\* fragment being matched.
ParagraphWords(k) ==
    WordTexts(ParagraphAt(annotated_document, paragraph_mapping[k]))
FragmentWords == split(normalize(cleaned_content))

\* The words the fragment shares with paragraph number k, and how often
\* they occur in the paragraph.
SharedWords(k) ==
    {clean(FragmentWords[j]) : j \in
        {j \in DOMAIN FragmentWords :
            \E i \in DOMAIN ParagraphWords(k) :
                words_match(ParagraphWords(k)[i], FragmentWords[j])}}
Occurrences(k) ==
    Cardinality({i \in DOMAIN ParagraphWords(k) :
                    clean(ParagraphWords(k)[i]) \in SharedWords(k)})

\* Paragraph number k has at least ten words and the fragment shares
\* exactly one word with it.
Incidental(k) ==
    /\ Len(ParagraphWords(k)) >= 10
    /\ Cardinality(SharedWords(k)) = 1

\* Incidental(k), the shared word is at most one word in ten of the
\* paragraph, and the fragment is not a substring of the paragraph text.
IncidentalRare(k) ==
    /\ Incidental(k)
    /\ 10 * Occurrences(k) <= Len(ParagraphWords(k))
    /\ ~contains(ParagraphText(k), normalize(cleaned_content))

\* C17 (as claimed): a fragment that shares only one word with a
\* paragraph of at least ten words, however often the word occurs in it,
\* scores at most 0.1 against it and sets no flag in it.
C17_OneSharedWordRejected ==
    /\ [](InFragment
            => \A k \in ParagraphNumbers :
                  Incidental(k) => ~Greater(Score(k), Threshold))
    /\ [][\A k \in ParagraphNumbers :
             (pc = "selected" /\ Incidental(k))
             => ParagraphAt(annotated_document', paragraph_mapping[k])
                   = ParagraphAt(annotated_document, paragraph_mapping[k])]_vars

\* C17 (amended): when the shared word is at most one word in ten of the
\* paragraph and the fragment is not a substring of the paragraph text,
\* the fragment scores at most 0.1 against the paragraph and sets no flag
\* in it.
C17_OneRareWordRejected ==
    /\ [](InFragment
            => \A k \in ParagraphNumbers :
                  IncidentalRare(k) => ~Greater(Score(k), Threshold))
    /\ [][\A k \in ParagraphNumbers :
             (pc = "selected" /\ IncidentalRare(k))
             => ParagraphAt(annotated_document', paragraph_mapping[k])
                   = ParagraphAt(annotated_document, paragraph_mapping[k])]_vars

\* The ten-word paragraph is the best match of a fragment that shares one
\* word with it, with a score of exactly 0.1.
C17_Witness ==
    /\ pc = "selected"
    /\ best_paragraph_info # None
    /\ IncidentalRare(ReturnedNumber)
    /\ best_match_score = Threshold
    /\ Len(FragmentWords) = 2

\* The word positions the scoring pass (line 107, with the text of line
\* 121) and the flagging pass (line 294, with the text of line 293) find
\* in paragraph number k for the fragment being matched.
ScoringPositions(k) ==
    find_contiguous_matches(normalize(cleaned_content), ParagraphWords(k))
FlaggingPositions(k) ==
    find_contiguous_matches(join(split(cleaned_content)), ParagraphWords(k))

\* C18: the merge is a function of its inputs: the merged document is
\* determined by the request and the gathered responses in their order,
\* whatever led to them; and for the fragment and the paragraph selected
\* for it the positions of the scoring pass are those of the flagging
\* pass, which are the words the step flags.
C18_Deterministic ==
    /\ [](/\ pc = "done"
             => annotated_document = merge(document, annotation_results)
          /\ (pc = "selected" /\ best_paragraph_info # None)
             => ScoringPositions(ReturnedNumber)
                   = FlaggingPositions(ReturnedNumber))
    /\ [][(pc = "selected" /\ accepts(best_paragraph_info, best_match_score))
             => ParagraphAt(annotated_document', best_paragraph_info)
                   = flag_words(ParagraphAt(annotated_document,
                                            best_paragraph_info),
                                ScoringPositions(ReturnedNumber),
                                annotation_type)]_vars

\* The merge of two different fragments of one annotation type is over
\* and has set flags.
C18_Witness ==
    /\ pc = "done"
    /\ annotated_document # document
    /\ Len(annotation_results) = 1
    /\ Len(findall(annotation_results[1].result_text)) = 2
    /\ findall(annotation_results[1].result_text)[1]
          # findall(annotation_results[1].result_text)[2]

\* C19: the length comparison only rejects the exact-containment branch:
\* a paragraph whose joined text is shorter than the fragment still gets
\* its fuzzy score, the matched word positions over the number of words.
C19_ShorterStillFuzzy ==
    InFragment
    => \A k \in ParagraphNumbers :
          Len(ParagraphText(k)) < Len(cleaned_content)
          => Score(k) = Quotient(Cardinality(ScoringPositions(k)),
                                 Len(ParagraphWords(k)))

\* C20: when the fragment is not exactly contained in the paragraph the
\* score is the number of distinct matched positions over the number of
\* non-empty words of the paragraph; every score lies in [0,1] and every
\* matched position is in 0..len(paragraph_words)-1.
C20_FuzzyScoreIsRatio ==
    InFragment
    => \A k \in ParagraphNumbers :
          /\ ~contains(ParagraphText(k), normalize(cleaned_content))
             => Score(k) = Quotient(Cardinality(ScoringPositions(k)),
                                    Len(ParagraphWords(k)))
          /\ ~Greater(ScoreZero, Score(k))
          /\ ~Greater(Score(k), ScoreOne)
          /\ ScoringPositions(k) \subseteq 0..(Len(ParagraphWords(k)) - 1)

\* The window of paragraph number k at 0-based offset o matches the
\* tokens s..e of the fragment, word for word.
WindowMatches(k, s, e, o) ==
    /\ o + (e - s) < Len(ParagraphWords(k))
    /\ \A j \in s..e :
          words_match(strip(ParagraphWords(k)[o + (j - s) + 1]),
                      FragmentWords[j])

\* The positions of paragraph number k that lie in a window matching a
\* contiguous sub-phrase of the fragment.
WindowPositions(k) ==
    {p \in 0..(Len(ParagraphWords(k)) - 1) :
        \E s \in DOMAIN FragmentWords :
            \E e \in s..Len(FragmentWords) :
                \E o \in 0..p :
                    p <= o + (e - s) /\ WindowMatches(k, s, e, o)}

\* C21: find_contiguous_matches returns exactly the positions that lie in
\* some window of the paragraph whose words match, one by one, some
\* contiguous sub-phrase of the fragment: none outside such a window,
\* none inside one missing.
C21_UnionOfWindows ==
    InFragment
    => \A k \in ParagraphNumbers : ScoringPositions(k) = WindowPositions(k)

\* A fragment of two tokens whose first token is found in two windows and
\* whose second token in a third.
C21_Witness ==
    /\ pc = "selected"
    /\ Len(FragmentWords) = 2
    /\ \E k \in ParagraphNumbers :
          /\ Cardinality(ScoringPositions(k)) = 3
          /\ Len(ParagraphWords(k)) = 10

\* The pairs of a word of paragraph number k and a token of the fragment
\* that words_match is applied to (line 51).
ComparedPairs ==
    UNION {{<<strip(ParagraphWords(k)[i]), FragmentWords[j]>> :
               i \in DOMAIN ParagraphWords(k), j \in DOMAIN FragmentWords} :
           k \in ParagraphNumbers}

Letters == Range(LowerLetters) \cup Range(UpperLetters) \cup AccentedLetters

\* A word in lower case without the code points that are not in Kept.
Reduced(word, Kept) == SelectSeq(lower(word), LAMBDA c : c \in Kept)

\* A word with every diacritic taken off: the precomposed letter becomes
\* its base letter, the combining mark goes.
Unaccented(word) ==
    LET base == [i \in DOMAIN word |->
                    IF word[i] = "a_breve" THEN "a" ELSE word[i]]
    IN  SelectSeq(base, LAMBDA c : c # "combining_breve")

\* Two words that differ, and only by a diacritic.
DifferByDiacritic(a, b) == a # b /\ Unaccented(a) = Unaccented(b)

\* C22 (as claimed): words_match(a, b) is true exactly when a and b are
\* equal after lowercasing and deleting every character that is not a
\* letter, a digit or whitespace, and two words that differ only by a
\* diacritic do not match.
C22_MatchModuloPunctuation ==
    InFragment
    => \A pair \in ComparedPairs :
          /\ words_match(pair[1], pair[2])
                <=> Reduced(pair[1], Letters \cup Digits \cup Whitespace)
                       = Reduced(pair[2], Letters \cup Digits \cup Whitespace)
          /\ DifferByDiacritic(pair[1], pair[2])
                => ~words_match(pair[1], pair[2])

\* C22 (amended): the underscore is kept like a letter, and a combining
\* mark is deleted like punctuation: only a precomposed accented letter
\* keeps a word from matching its unaccented spelling.
C22_MatchModuloNonWord ==
    InFragment
    => \A pair \in ComparedPairs :
          /\ words_match(pair[1], pair[2])
                <=> Reduced(pair[1], Letters \cup Digits \cup Whitespace \cup {"_"})
                       = Reduced(pair[2], Letters \cup Digits \cup Whitespace \cup {"_"})
          /\ (DifferByDiacritic(pair[1], pair[2])
                /\ "combining_breve" \notin Range(pair[1])
                /\ "combining_breve" \notin Range(pair[2]))
                => ~words_match(pair[1], pair[2])

\* "CA." has been compared with "c-a" and matched, and flagged.
C22_Witness ==
    /\ pc = "done"
    /\ cleaned_content = <<"c", "-", "a">>
    /\ ParagraphWords(1) = << <<"C", "A", ".">> >>
    /\ words_match(ParagraphWords(1)[1], FragmentWords[1])
    /\ annotated_document # document

\* The places <<page, paragraph>> of the paragraphs of the request that
\* have a word which is not blank.
NonEmptyPlaces ==
    {place \in UNION {{<<p, q>> : q \in 1..Len(document.pages[p].paragraphs)} :
                         p \in 1..Len(document.pages)} :
        \E i \in DOMAIN document.pages[place[1]].paragraphs[place[2]].words :
            strip(document.pages[place[1]].paragraphs[place[2]].words[i].text)
                # <<>>}

\* Place a comes before place b in document order.
Before(a, b) == a[1] < b[1] \/ (a[1] = b[1] /\ a[2] < b[2])

\* C23: the mapping has the keys 1..N, N the number of non-empty
\* paragraphs of the document; key k is the k-th non-empty paragraph in
\* page order, then paragraph order; no paragraph whose words are all
\* blank is in the mapping.
C23_MappingIsDense ==
    Merging
    => /\ DOMAIN paragraph_mapping = 1..Cardinality(NonEmptyPlaces)
       /\ Range(paragraph_mapping) = NonEmptyPlaces
       /\ \A k \in ParagraphNumbers :
             \A l \in ParagraphNumbers :
                 k < l => Before(paragraph_mapping[k], paragraph_mapping[l])

\* A document whose first paragraph is blank: number 1 is a later
\* paragraph.
C23_Witness ==
    /\ Merging
    /\ <<1, 1>> \notin NonEmptyPlaces
    /\ Len(paragraph_mapping) >= 1
    /\ paragraph_mapping[1] # <<1, 1>>

\* The requested annotation types whose call returned a response, in the
\* requested order.
AnsweredTypes ==
    LET made == SelectSeq(annotation_results_list,
                          LAMBDA result : result.response_content # None)
    IN  [i \in 1..Len(made) |-> made[i].annotation_type]

\* C24: no copy is made and no flag is changed before every model call
\* has returned; then the annotation types are merged one after another
\* in the requested order, the next one only when the fragments of the
\* current one are exhausted; the fragments are taken in response order,
\* each one is scored once and then accepted or rejected, and only an
\* accepted fragment changes flags.
C24_CallsThenMergeInOrder ==
    /\ []((pc \in {"start", "annotating"} \/ ~AllReturned)
             => annotated_document = Document(<<>>))
    /\ [](Gathered
             => [i \in DOMAIN annotation_results |->
                    annotation_results[i].annotation_type] = AnsweredTypes)
    /\ [][/\ annotated_document' # annotated_document
             => /\ AllReturned
                /\ \/ pc = "gathered"
                   \/ pc = "selected"
                        /\ accepts(best_paragraph_info, best_match_score)
          /\ item_idx' # item_idx
             => /\ item_idx' = item_idx + 1
                /\ \/ pc = "gathered"
                   \/ pc = "category" /\ result_text = <<>>
                   \/ pc = "fragment" /\ frag_idx > Len(matches)
          /\ frag_idx' # frag_idx
             => \/ pc = "category" /\ frag_idx' = 1
                \/ /\ frag_idx' = frag_idx + 1
                   /\ \/ pc = "selected"
                      \/ pc = "fragment" /\ strip(matches[frag_idx]) = <<>>
          /\ (pc # "select" /\ pc' = "select")
             => /\ pc = "fragment"
                /\ cleaned_content' = strip(matches[frag_idx])
                /\ frag_idx' = frag_idx
          /\ (pc = "selected" /\ pc' # "failed")
             => pc' = "fragment" /\ frag_idx' = frag_idx + 1]_vars

\* Two annotation types were requested, both calls returned fragments,
\* and the merge is at the second fragment of the second type after
\* flags were set.
C24_Witness ==
    /\ pc = "selected"
    /\ Len(annotation_results) = 2
    /\ item_idx = 2
    /\ frag_idx = 2
    /\ annotated_document # document

\* The positions of paragraph number k whose word matches, on its own,
\* some token of the fragment.
TokenPositions(k) ==
    {p \in 0..(Len(ParagraphWords(k)) - 1) :
        \E j \in DOMAIN FragmentWords :
            words_match(strip(ParagraphWords(k)[p + 1]), FragmentWords[j])}

\* The word of the copy that is the non-blank word number p (0-based) of
\* the paragraph at info, after the step.
NonBlankWordAfter(info, p) ==
    ParagraphAt(annotated_document', info).words[
        NonBlank(ParagraphAt(annotated_document, info))[p + 1]]

\* C25: find_contiguous_matches returns the positions whose word matches
\* some token of the fragment on its own, and when the fragment is
\* accepted every such word of the selected paragraph has the flag.
C25_EveryTokenOccurrence ==
    /\ [](InFragment
            => \A k \in ParagraphNumbers :
                  ScoringPositions(k) = TokenPositions(k))
    /\ [][(pc = "selected" /\ accepts(best_paragraph_info, best_match_score))
             => \A p \in TokenPositions(ReturnedNumber) :
                   NonBlankWordAfter(best_paragraph_info, p)[annotation_type]]_vars

\* A fragment of two tokens that occurs nowhere as a whole was accepted:
\* its tokens occur on their own.
C25_Witness ==
    /\ pc = "done"
    /\ annotated_document # document
    /\ Len(FragmentWords) = 2
    /\ best_paragraph_info # None
    /\ find_word_positions_in_paragraph(normalize(cleaned_content),
                                        ParagraphWords(ReturnedNumber)) = {}

\* The fragment stands in paragraph number k word by word: some window of
\* the paragraph has the tokens of the fragment as its words.
Aligned(k) ==
    \E o \in 0..(Len(ParagraphWords(k)) - Len(FragmentWords)) :
        \A j \in DOMAIN FragmentWords :
            strip(ParagraphWords(k)[o + j]) = FragmentWords[j]

\* The normalized fragment is a character substring of the text of
\* paragraph number k without standing in it word by word.
Misaligned(k) ==
    /\ contains(ParagraphText(k), normalize(cleaned_content))
    /\ ~Aligned(k)

\* C26: a fragment whose normalized text is a character substring of the
\* paragraph text without being aligned with its words is scored 1.0 and
\* accepted, and the words flagged for it are those that match a whole
\* token of the fragment (possibly none).
C26_CharacterContainment ==
    /\ [](InFragment
            => \A k \in ParagraphNumbers :
                  Misaligned(k) => Score(k) = ScoreOne)
    /\ [][(pc = "selected" /\ \E k \in ParagraphNumbers : Misaligned(k))
             => /\ accepts(best_paragraph_info, best_match_score)
                /\ ParagraphAt(annotated_document', best_paragraph_info)
                      = flag_words(ParagraphAt(annotated_document,
                                               best_paragraph_info),
                                   TokenPositions(ReturnedNumber),
                                   annotation_type)]_vars

\* The words of the request whose text is blank after trimming.
BlankPlaces ==
    {place \in WordPlaces(document) :
        strip(WordAt(document, place).text) = <<>>}

\* C27: a word whose text is blank is never flagged: it has the flags of
\* the request throughout; and the word that gets a flag is a word whose
\* text matches a token of the fragment, also when blank words stand
\* before it in the paragraph.
C27_BlankWordsTransparent ==
    /\ [](Merging
            => \A place \in BlankPlaces :
                  WordAt(annotated_document, place) = WordAt(document, place))
    /\ [][Merging
             => \A place \in WordPlaces(document) :
                   WordAt(annotated_document', place)
                       # WordAt(annotated_document, place)
                   => /\ pc = "selected"
                      /\ <<place[1], place[2]>> = best_paragraph_info
                      /\ \E j \in DOMAIN FragmentWords :
                            words_match(strip(WordAt(document, place).text),
                                        FragmentWords[j])]_vars

\* A word that stands after a blank word of its paragraph got a flag.
C27_Witness ==
    /\ pc = "done"
    /\ \E place \in BlankPlaces :
          LET after == <<place[1], place[2], place[3] + 1>>
          IN  /\ after \in WordPlaces(document)
              /\ WordAt(annotated_document, after) # WordAt(document, after)

\* The places <<page, paragraph>> of the paragraphs of the request, and
\* those whose paragraph the step changes.
ParagraphPlaces ==
    UNION {{<<p, q>> : q \in 1..Len(document.pages[p].paragraphs)} :
              p \in 1..Len(document.pages)}
ChangedPlaces ==
    {place \in ParagraphPlaces :
        ParagraphAt(annotated_document', place)
            # ParagraphAt(annotated_document, place)}

\* C28 (as claimed): a step that applies an accepted fragment changes
\* exactly one paragraph, the selected one; every other step of the merge
\* changes none.
C28_ExactlyOneParagraph ==
    [][Merging
          => IF pc = "selected" /\ accepts(best_paragraph_info, best_match_score)
             THEN ChangedPlaces = {best_paragraph_info}
             ELSE ChangedPlaces = {}]_vars

\* C28 (amended): a step that applies an accepted fragment changes no
\* paragraph but the selected one (and not even that one when the matched
\* words have the flag already or no word matches); every other step of
\* the merge, for a blank or a rejected fragment too, changes none.
C28_OnlySelectedParagraph ==
    [][Merging
          => IF pc = "selected" /\ accepts(best_paragraph_info, best_match_score)
             THEN ChangedPlaces \subseteq {best_paragraph_info}
             ELSE ChangedPlaces = {}]_vars

\* The first of two paragraphs that hold words of the fragment was
\* flagged, the second has the flags of the request.
C28_Witness ==
    /\ pc = "done"
    /\ Len(paragraph_mapping) = 2
    /\ best_paragraph_info = paragraph_mapping[1]
    /\ TokenPositions(2) # {}
    /\ ParagraphAt(annotated_document, paragraph_mapping[1])
          # ParagraphAt(document, paragraph_mapping[1])
    /\ ParagraphAt(annotated_document, paragraph_mapping[2])
          = ParagraphAt(document, paragraph_mapping[2])

\* The order of the statuses of a task that is not failing.
StatusOrder ==
    <<"pending", "processing", "extracting_content", "annotating",
      "completed">>

Rank(status) == CHOOSE i \in DOMAIN StatusOrder : StatusOrder[i] = status

\* A sequence of statuses is PENDING, PROCESSING, EXTRACTING_CONTENT,
\* ANNOTATING one or more times and COMPLETED, or the beginning of that,
\* or the beginning of that and then FAILED.
FollowsOrder(statuses) ==
    \A i \in DOMAIN statuses :
        IF i = 1 THEN statuses[i] = "pending"
        ELSE IF statuses[i - 1] \in {"completed", "failed"} THEN FALSE
        ELSE IF statuses[i] = "failed" THEN TRUE
        ELSE \/ Rank(statuses[i]) = Rank(statuses[i - 1]) + 1
             \/ statuses[i] = "annotating" /\ statuses[i - 1] = "annotating"

\* The calls of the status callback with a final status.
FinalCalls ==
    {i \in DOMAIN status_updates :
        status_updates[i].status \in {"completed", "failed"}}

\* C29: the statuses written in the record of a task follow the order
\* PENDING, PROCESSING, EXTRACTING_CONTENT, ANNOTATING (one or more times),
\* COMPLETED, or a beginning of it followed by FAILED; a run of
\* annotate_document_with_llm reports at most one final status, as its
\* last call of the callback, and when the run is over it has reported
\* one: it ends at line 318 or in the handler of line 320, never with an
\* exception.
C29_StatusOrder ==
    /\ FollowsOrder(written)
    /\ Cardinality(FinalCalls) <= 1
    /\ FinalCalls # {} => Finished /\ FinalCalls = {Len(status_updates)}
    /\ Finished => FinalCalls # {}
    /\ pc \in {"new", "queued"} => status_updates = <<>>

C29_Witness ==
    /\ pc = "done"
    /\ written = <<"pending", "processing", "extracting_content",
                   "annotating", "annotating", "annotating", "completed">>
    /\ LastCall.status = "completed"

\* The task has been submitted and its record is not in Redis.
Missing == pc # "new" /\ redis_task = None

\* What a request GET /annotated-document does, by the status of the
\* record it finds.
RetrievalAnswers ==
    get_annotated_document =>
        /\ redis_task # None /\ redis_task[1].status \notin {"completed", "failed"}
               => /\ http_response'[1].code = 202
                  /\ http_response'[1].document = None
                  /\ redis_task' = redis_task
        /\ redis_task # None /\ redis_task[1].status = "failed"
               => /\ http_response'[1].status = "failed"
                  /\ http_response'[1].error = LastCall.error
                  /\ http_response'[1].error # None
                  /\ http_response'[1].document = None
                  /\ redis_task' = redis_task
        /\ redis_task # None /\ redis_task[1].status = "completed"
               => /\ http_response'[1].status = "completed"
                  /\ http_response'[1].document = <<annotated_document>>
                  /\ redis_task' = None

\* A missing record stays missing, whatever status is reported next, and
\* a request that finds no record is answered 404.
MissingStays ==
    Missing =>
        /\ redis_task' = None
        /\ written' = written
        /\ get_task_status \/ get_annotated_document
               => http_response'[1].code = 404

====
